---- MODULE Spec2Model ----
(***************************************************************************)
(* Model of fsr_seasonal_app.py: the key normalizer, the category/metro    *)
(* URL helpers, the page scraper's result handling and the comparison      *)
(* (reconciliation) step of main().                                        *)
(*                                                                         *)
(* Text is a sequence of one-character strings, so that the character      *)
(* level operations (lower, replace, re.sub, strip, split) are computed    *)
(* and not assumed.  A missing cell of the uploaded table (pandas NaN /    *)
(* None, i.e. a value that is not a str) is the distinguished value NaN.   *)
(***************************************************************************)
EXTENDS Integers, Sequences, FiniteSets, TLC

VARIABLES
    pc,        \* position of the run that the specification in force describes
    text,      \* normalize: the input text
    variant,   \* normalize: a respelling of text (case, punctuation, spacing, & / and)
    out,       \* normalize: normalize(variant)
    again,     \* normalize: normalize(out)
    url,       \* extract_category_and_metro: the input URL
    labels,    \* extract_category_and_metro: the (category, metro) returned
    df,        \* main: the uploaded reference table, one record per CSV row
    urls,      \* main: list(base_urls) returned by extract_category_urls
    fetched,   \* main: one entry per scrape_company_data call made so far
    all_data,  \* main: the accumulator of scraped records
    out_df,    \* main: pd.DataFrame(all_data) with its match_key column
    final_df,  \* main: the rows of the report (merged rows, then missing rows)
    report     \* main: "none" until the run ends, then "shown" or "warning"

vars == <<pc, text, variant, out, again, url, labels,
          df, urls, fetched, all_data, out_df, final_df, report>>


-----------------------------------------------------------------------------
(* Bounds of the checked instances.                                        *)

MaxLen == 3        \* longest text drawn for normalize
MaxPath == 4       \* longest URL path drawn for extract_category_and_metro
MaxRef == 2        \* most rows of the uploaded reference table
MaxBlocks == 2     \* most company-row blocks on one scraped page

-----------------------------------------------------------------------------
(* The sequences over S of length at most n, from which inputs are drawn.  *)

RECURSIVE SeqsUpTo(_, _)
SeqsUpTo(S, n) ==
    IF n = 0 THEN {<<>>}
    ELSE LET shorter == SeqsUpTo(S, n - 1)
         IN  shorter \cup {Append(s, c) : s \in shorter, c \in S}

-----------------------------------------------------------------------------
(* Characters and Python's str / re primitives.                            *)

NaN == <<"<NaN>">>

Str(s) == s # NaN

UpperCase == <<"A", "B", "C", "I", "P", "X", "Y">>
LowerCase == <<"a", "b", "c", "i", "p", "x", "y">>
OtherLower == {"n", "d"}
Digits == {"1"}
Whitespace == {" ", "\t"}
Punctuation == {".", ",", "-", "/"}

IsUpper(c) == \E k \in 1..Len(UpperCase) : UpperCase[k] = c
IsLower(c) == (\E k \in 1..Len(LowerCase) : LowerCase[k] = c) \/ c \in OtherLower

\* str.lower() on one character
LowerChar(c) ==
    IF IsUpper(c)
    THEN LowerCase[CHOOSE k \in 1..Len(UpperCase) : UpperCase[k] = c]
    ELSE c

\* str.upper() on one character (used only to respell an input)
UpperChar(c) ==
    IF \E k \in 1..Len(LowerCase) : LowerCase[k] = c
    THEN UpperCase[CHOOSE k \in 1..Len(LowerCase) : LowerCase[k] = c]
    ELSE c

\* str.lower()
Lower(s) == [k \in 1..Len(s) |-> LowerChar(s[k])]

\* re: \w
IsWord(c) == IsUpper(c) \/ IsLower(c) \/ c \in Digits \/ c = "_"

\* re: \s
IsSpace(c) == c \in Whitespace

RECURSIVE ReplaceChar(_, _, _)
\* str.replace(old, new) for a one-character old
ReplaceChar(s, old, new) ==
    IF s = <<>> THEN <<>>
    ELSE (IF Head(s) = old THEN new ELSE <<Head(s)>>) \o ReplaceChar(Tail(s), old, new)

\* re.sub(r"[^\w\s]", "", s)
StripPunct(s) == SelectSeq(s, LAMBDA c : IsWord(c) \/ IsSpace(c))

RECURSIVE CollapseSpace(_)
\* re.sub(r"\s+", " ", s)
CollapseSpace(s) ==
    IF s = <<>> THEN <<>>
    ELSE IF IsSpace(Head(s))
         THEN IF Len(s) > 1 /\ IsSpace(s[2])
              THEN CollapseSpace(Tail(s))
              ELSE <<" ">> \o CollapseSpace(Tail(s))
         ELSE <<Head(s)>> \o CollapseSpace(Tail(s))

RECURSIVE LStrip(_, _)
LStrip(s, chars) ==
    IF s # <<>> /\ Head(s) \in chars THEN LStrip(Tail(s), chars) ELSE s

RECURSIVE RStrip(_, _)
RStrip(s, chars) ==
    IF s # <<>> /\ s[Len(s)] \in chars THEN RStrip(SubSeq(s, 1, Len(s) - 1), chars) ELSE s

\* str.strip() and str.strip(chars)
Strip(s, chars) == RStrip(LStrip(s, chars), chars)

RECURSIVE Split(_, _)
\* str.split(sep) for a one-character sep: always at least one part
Split(s, sep) ==
    IF \E k \in 1..Len(s) : s[k] = sep
    THEN LET k == CHOOSE j \in 1..Len(s) : s[j] = sep /\ \A h \in 1..(j - 1) : s[h] # sep
         IN  <<SubSeq(s, 1, k - 1)>> \o Split(SubSeq(s, k + 1, Len(s)), sep)
    ELSE <<s>>

-----------------------------------------------------------------------------
(* normalize, lines 80-87.                                                 *)

\* normalize with the punctuation stripped before "&" is replaced
normalize_PunctuationFirst(t) ==
    IF ~Str(t) THEN <<>>
    ELSE Strip(CollapseSpace(ReplaceChar(StripPunct(Lower(t)), "&", <<"a", "n", "d">>)),
               Whitespace)

normalize(t) ==
    IF ~Str(t) THEN <<>>
    ELSE Strip(CollapseSpace(StripPunct(ReplaceChar(Lower(t), "&", <<"a", "n", "d">>))),
               Whitespace)

-----------------------------------------------------------------------------
(* extract_category_and_metro, lines 21-28.                                *)
(* A URL is what urlparse makes of it: a netloc and a path; urlparse       *)
(* raises ValueError on a malformed netloc (an unclosed "[").              *)

Unknown == <<"u", "n", "k", "n", "o", "w", "n">>

Url(path) == [netloc |-> "h", path |-> path]

BadUrl == [netloc |-> "[", path |-> <<>>]

urlparseRaises(u) == u.netloc = "["

\* urlparse(url).path.strip("/").split("/")
PathParts(u) == Split(Strip(u.path, {"/"}), "/")

extract_category_and_metro(u) ==
    IF urlparseRaises(u) THEN <<Unknown, Unknown>>
    ELSE LET parts == PathParts(u)
             category == IF Len(parts) > 0
                         THEN ReplaceChar(parts[1], "-", <<" ">>) ELSE Unknown
             metro == IF Len(parts) > 1
                      THEN ReplaceChar(parts[2], "-", <<" ">>) ELSE Unknown
         IN  <<category, metro>>

-----------------------------------------------------------------------------
(* pd.read_csv, line 94.  A CSV cell is its text; an empty cell loads as   *)
(* NaN.  A column whose non-empty cells are all numerals loads as numbers, *)
(* any other column loads as an object column that keeps every cell's text.*)

NoValue == [t |-> "nan", n |-> 0, s |-> <<>>]
Num(n) == [t |-> "num", n |-> n, s |-> <<>>]
Text(s) == [t |-> "str", n |-> 0, s |-> s]

Numerals == <<"1", "2", "3", "4">>

IsNumeral(cell) == Len(cell) = 1 /\ \E k \in 1..Len(Numerals) : Numerals[k] = cell[1]

NumeralValue(cell) == CHOOSE k \in 1..Len(Numerals) : Numerals[k] = cell[1]

\* Series.notna()
notna(v) == v.t # "nan"

\* Series != Series, elementwise: a number is never equal to a str
ne(a, b) == a.t # b.t \/ a.n # b.n \/ a.s # b.s

UrlNaN == [netloc |-> "<NaN>", path |-> <<>>]

TextCell(cell) == IF cell = <<>> THEN NaN ELSE cell

read_csv(csv) ==
    LET numeric == \A k \in 1..Len(csv) :
                       csv[k].FSRPosition = <<>> \/ IsNumeral(csv[k].FSRPosition)
        position(cell) == IF cell = <<>> THEN NoValue
                          ELSE IF numeric THEN Num(NumeralValue(cell))
                          ELSE Text(cell)
    IN  [k \in 1..Len(csv) |->
            [ProfileUrl |-> csv[k].ProfileUrl,
             PublishedName |-> TextCell(csv[k].PublishedName),
             Category |-> TextCell(csv[k].Category),
             Metro |-> TextCell(csv[k].Metro),
             FSRPosition |-> position(csv[k].FSRPosition)]]

-----------------------------------------------------------------------------
(* extract_category_urls, lines 30-44.                                     *)

\* f"{parsed.scheme}://{parsed.netloc}/{parts[0]}/{parts[1]}"
BaseUrl(u) ==
    LET parts == PathParts(u)
    IN  [netloc |-> u.netloc, path |-> <<"/">> \o parts[1] \o <<"/">> \o parts[2]]

RECURSIVE Orderings(_)
\* list(base_urls): the elements of the set, in an order the code does not choose
Orderings(S) ==
    IF S = {} THEN {<<>>}
    ELSE UNION {{<<x>> \o rest : rest \in Orderings(S \ {x})} : x \in S}

extract_category_urls(d) ==
    LET full == {d[k].ProfileUrl : k \in 1..Len(d)} \ {UrlNaN}
        base_urls == {BaseUrl(u) : u \in {v \in full : /\ ~urlparseRaises(v)
                                                       /\ Len(PathParts(v)) >= 2}}
    IN  Orderings(base_urls)

-----------------------------------------------------------------------------
(* scrape_company_data, lines 46-78.  A page is what the request and the   *)
(* parse give: whether either raises, the status code, and the content     *)
(* attribute of the name tag of each company-row block (NaN: no such tag). *)

StatusOk == 200

NotAvailable == <<"N", "/", "A">>

\* scrape_company_data without the status check of lines 50-52
scrape_company_data_NoStatusCheck(u, page) ==
    IF page.raises THEN <<>>
    ELSE LET lab == extract_category_and_metro(u)
             name(k) == IF Str(page.blocks[k])
                        THEN Strip(page.blocks[k], Whitespace) ELSE NotAvailable
             row(k) == [url |-> u, category |-> lab[1], metro |-> lab[2],
                        position |-> k, name |-> name(k)]
             rows == [k \in 1..Len(page.blocks) |-> row(k)]
         IN  SelectSeq(rows, LAMBDA r : r.name # <<>> /\ r.name # NotAvailable)

scrape_company_data(u, page) ==
    IF page.raises THEN <<>>
    ELSE IF page.status_code # StatusOk THEN <<>>
    ELSE LET lab == extract_category_and_metro(u)
             name(k) == IF Str(page.blocks[k])
                        THEN Strip(page.blocks[k], Whitespace) ELSE NotAvailable
             row(k) == [url |-> u, category |-> lab[1], metro |-> lab[2],
                        position |-> k, name |-> name(k)]
             rows == [k \in 1..Len(page.blocks) |-> row(k)]
         IN  SelectSeq(rows, LAMBDA r : r.name # <<>> /\ r.name # NotAvailable)

-----------------------------------------------------------------------------
(* The comparison step of main, lines 110-153.                             *)

\* main without the test of line 110
HasData_Always(data) == TRUE

\* line 110: if all_data
HasData(data) == data # <<>>

\* Series.fillna("").astype(str)
fillna(v) == IF Str(v) THEN v ELSE <<>>

Sep == <<"|">>

\* lines 118-122
input_key(r) ==
    normalize(r.PublishedName) \o Sep \o normalize(r.Category) \o Sep
        \o normalize(fillna(r.Metro))

\* lines 123-127
output_key(s) ==
    normalize(s.name) \o Sep \o normalize(s.category) \o Sep \o normalize(fillna(s.metro))

\* lines 115 and 118-122: df with Metro filled and the match_key column
keyed_df(d) ==
    [j \in 1..Len(d) |->
        [d[j] EXCEPT !.Metro = fillna(@)] @@ ("match_key" :> input_key(d[j]))]

\* lines 111, 116 and 123-127: out_df with its match_key column
keyed_out_df(data) ==
    [i \in 1..Len(data) |->
        [data[i] EXCEPT !.metro = fillna(@)] @@ ("match_key" :> output_key(data[i]))]

\* lines 130-139, on one row of merged
comparison_issue(m) ==
    IF ~Str(m.PublishedName) THEN "missing from input"
    ELSE IF notna(m.position) /\ notna(m.FSRPosition) /\ ne(m.position, m.FSRPosition)
         THEN "position mismatch"
         ELSE ""

\* one row of pd.merge(out_df, df, on="match_key", how="left"): row i of out_df
\* joined to row j of df, or to no row (j = 0).  The labels scraped and ref are
\* the row labels of out_df and df the row was built from.
MergedRow(d, o, i, j) ==
    LET m == [url |-> o[i].url, category |-> o[i].category, metro |-> o[i].metro,
              position |-> Num(o[i].position), name |-> o[i].name,
              match_key |-> o[i].match_key,
              ProfileUrl |-> IF j = 0 THEN UrlNaN ELSE d[j].ProfileUrl,
              PublishedName |-> IF j = 0 THEN NaN ELSE d[j].PublishedName,
              Category |-> IF j = 0 THEN NaN ELSE d[j].Category,
              Metro |-> IF j = 0 THEN NaN ELSE d[j].Metro,
              FSRPosition |-> IF j = 0 THEN NoValue ELSE d[j].FSRPosition,
              scraped |-> i, ref |-> j]
    IN  m @@ ("comparison_issue" :> comparison_issue(m))

RECURSIVE Flatten(_)
Flatten(ss) == IF ss = <<>> THEN <<>> ELSE Head(ss) \o Flatten(Tail(ss))

\* line 129: left join, left order kept, matches in the order of df
Matches(d, o, i) ==
    SelectSeq([j \in 1..Len(d) |-> j], LAMBDA j : d[j].match_key = o[i].match_key)

\* the join as an inner join: scraped records without a match are dropped
merge_Inner(d, o) ==
    Flatten([i \in 1..Len(o) |->
                LET js == Matches(d, o, i)
                IN  [k \in 1..Len(js) |-> MergedRow(d, o, i, js[k])]])

merge(d, o) ==
    Flatten([i \in 1..Len(o) |->
                LET js == Matches(d, o, i)
                IN  IF js = <<>> THEN <<MergedRow(d, o, i, 0)>>
                    ELSE [k \in 1..Len(js) |-> MergedRow(d, o, i, js[k])]])

\* the missing row with category and metro left empty
MissingRow_NullLabels(d, j) ==
    [url |-> UrlNaN, category |-> NaN, metro |-> NaN,
     position |-> NoValue, name |-> NaN,
     match_key |-> d[j].match_key,
     ProfileUrl |-> d[j].ProfileUrl,
     PublishedName |-> d[j].PublishedName,
     Category |-> d[j].Category,
     Metro |-> d[j].Metro,
     FSRPosition |-> d[j].FSRPosition,
     comparison_issue |-> "missing from website",
     scraped |-> 0, ref |-> j]

\* lines 145-151
MissingRow(d, j) ==
    [url |-> UrlNaN, category |-> d[j].Category, metro |-> d[j].Metro,
     position |-> NoValue, name |-> NaN,
     match_key |-> d[j].match_key,
     ProfileUrl |-> d[j].ProfileUrl,
     PublishedName |-> d[j].PublishedName,
     Category |-> d[j].Category,
     Metro |-> d[j].Metro,
     FSRPosition |-> d[j].FSRPosition,
     comparison_issue |-> "missing from website",
     scraped |-> 0, ref |-> j]

\* one missing row per missing key instead of one per reference row
missing_rows_OnePerKey(d, o) ==
    LET scraped_keys == {o[i].match_key : i \in 1..Len(o)}
        input_keys == {d[j].match_key : j \in 1..Len(d)}
        missing_keys == input_keys \ scraped_keys
        js == SelectSeq([j \in 1..Len(d) |-> j],
                        LAMBDA j : /\ d[j].match_key \in missing_keys
                                   /\ \A h \in 1..(j - 1) : d[h].match_key # d[j].match_key)
    IN  [k \in 1..Len(js) |-> MissingRow(d, js[k])]

\* lines 141-151
missing_rows(d, o) ==
    LET scraped_keys == {o[i].match_key : i \in 1..Len(o)}
        input_keys == {d[j].match_key : j \in 1..Len(d)}
        missing_keys == input_keys \ scraped_keys
        js == SelectSeq([j \in 1..Len(d) |-> j], LAMBDA j : d[j].match_key \in missing_keys)
    IN  [k \in 1..Len(js) |-> MissingRow(d, js[k])]

\* line 153
concat(d, o) == merge(d, o) \o missing_rows(d, o)

-----------------------------------------------------------------------------
(* One run of main on an uploaded table.                                   *)
(* The uploads drawn carry the FSR Position column, so that lines 95-97    *)
(* (which fill it with ranks, i.e. with numbers) do not run.               *)

Listing(path, category, metro) ==
    [ProfileUrl |-> Url(path), Category |-> category, Metro |-> metro]

ListingX == Listing(<<"/", "p", "/", "x", "/", "n">>, <<"P">>, <<"X">>)
ListingXY == Listing(<<"/", "p", "/", "x", "-", "y">>, <<"P">>, <<"X", " ", " ", "Y">>)
ListingShort == Listing(<<"/", "p">>, <<"P">>, <<>>)
ListingNoCategory == Listing(<<"/", "p", "/", "x", "/", "n">>, <<>>, <<"X">>)

CsvRowsOf(listings, names, positions) ==
    {[ProfileUrl |-> l.ProfileUrl, PublishedName |-> n, Category |-> l.Category,
      Metro |-> l.Metro, FSRPosition |-> p] :
        l \in listings, n \in names, p \in positions}

NameAB == <<"a", "&", "b", ".">>

PagesOf(contents) ==
    {[raises |-> FALSE, status_code |-> StatusOk, blocks |-> b] :
        b \in SeqsUpTo(contents, MaxBlocks)}
    \cup {[raises |-> r, status_code |-> c, blocks |-> <<NameAB>>] :
            r \in BOOLEAN, c \in {StatusOk, 404}}

Outcome(page) ==
    IF page.raises THEN "exception"
    ELSE IF page.status_code # StatusOk THEN "status" ELSE "ok"

InitOf(uploads) ==
    /\ df \in {read_csv(csv) : csv \in uploads}
    /\ pc = "uploaded"
    /\ urls = <<>> /\ fetched = <<>> /\ all_data = <<>> /\ out_df = <<>>
    /\ final_df = <<>> /\ report = "none"
    /\ text = <<>> /\ variant = <<>> /\ out = <<>> /\ again = <<>>
    /\ url = BadUrl /\ labels = <<>>

\* line 99
DeriveUrls ==
    /\ pc = "uploaded"
    /\ urls' \in extract_category_urls(df)
    /\ pc' = "scraping"
    /\ UNCHANGED <<df, fetched, all_data, final_df, report, text, variant, out, again,
                   url, labels, out_df>>

\* lines 104-108: one turn of the loop, on a page the site serves
FetchFrom(pages) ==
    /\ pc = "scraping"
    /\ Len(fetched) < Len(urls)
    /\ \E page \in pages :
          LET u == urls[Len(fetched) + 1]
              data == scrape_company_data(u, page)
          IN  /\ all_data' = all_data \o data
              /\ fetched' = Append(fetched, [url |-> u, outcome |-> Outcome(page)])
    /\ UNCHANGED <<pc, df, urls, final_df, report, text, variant, out, again, url, labels, out_df>>

\* lines 110-167
Compare ==
    /\ pc = "scraping"
    /\ Len(fetched) = Len(urls)
    /\ HasData(all_data)
    /\ df' = keyed_df(df)
    /\ out_df' = keyed_out_df(all_data)
    /\ final_df' = concat(keyed_df(df), keyed_out_df(all_data))
    /\ report' = "shown"
    /\ pc' = "done"
    /\ UNCHANGED <<urls, fetched, all_data, text, variant, out, again, url, labels>>

\* lines 168-169
NoData ==
    /\ pc = "scraping"
    /\ Len(fetched) = Len(urls)
    /\ ~HasData(all_data)
    /\ report' = "warning"
    /\ pc' = "done"
    /\ UNCHANGED <<df, urls, fetched, all_data, final_df, text, variant, out, again,
                   url, labels, out_df>>

-----------------------------------------------------------------------------
(* Specification Spec: tables over three listings (two category/metro      *)
(* pages and a profile URL too short to give one), named or unnamed rows,  *)
(* and pages of named and unnamed blocks.                                  *)

Uploads ==
    SeqsUpTo(CsvRowsOf({ListingX, ListingXY, ListingShort},
                       {<<"A", "&", "B">>, <<>>},
                       {<<"1">>, <<"2">>}),
             MaxRef)

Pages == PagesOf({NameAB, NaN})

Init == InitOf(Uploads)

Fetch == FetchFrom(Pages)

Next ==
    \/ DeriveUrls
    \/ Fetch
    \/ Compare
    \/ NoData

Spec == Init /\ [][Next]_vars

-----------------------------------------------------------------------------
(* Specification SpecNames: tables of one category/metro page whose name   *)
(* and category cells may be empty, and pages whose names may consist of   *)
(* punctuation only.                                                       *)

UploadsNames ==
    SeqsUpTo(CsvRowsOf({ListingX, ListingNoCategory},
                       {<<"A", "&", "B">>, <<>>},
                       {<<"1">>, <<"2">>}),
             MaxRef)

PagesNames == PagesOf({NameAB, <<"-">>, NaN})

InitNames == InitOf(UploadsNames)

FetchNames == FetchFrom(PagesNames)

NextNames ==
    \/ DeriveUrls
    \/ FetchNames
    \/ Compare
    \/ NoData

SpecNames == InitNames /\ [][NextNames]_vars

-----------------------------------------------------------------------------
(* Specification SpecPositions: tables of named rows whose FSR Position    *)
(* cell may be empty or not a number.                                      *)

UploadsPositions ==
    SeqsUpTo(CsvRowsOf({ListingX, ListingXY},
                       {<<"A", "&", "B">>},
                       {<<>>, <<"1">>, <<"2">>, <<"x">>}),
             MaxRef)

InitPositions == InitOf(UploadsPositions)

NextPositions ==
    \/ DeriveUrls
    \/ Fetch
    \/ Compare
    \/ NoData

SpecPositions == InitPositions /\ [][NextPositions]_vars

-----------------------------------------------------------------------------
(* Specification SpecNormalize: normalize applied to bounded texts and to  *)
(* their respellings.                                                      *)

TextAlphabet == {"a", "B", "1", "_", "&", ".", " ", "\t"}

Texts == SeqsUpTo(TextAlphabet, MaxLen)

ExampleA == <<"A", " ", "&", " ", "B", ",", " ", "I", "n", "c", ".">>
ExampleB == <<"a", " ", "a", "n", "d", " ", "b", " ", "i", "n", "c">>

InsertAt(s, k, c) == SubSeq(s, 1, k) \o <<c>> \o SubSeq(s, k + 1, Len(s))
RemoveAt(s, k) == SubSeq(s, 1, k - 1) \o SubSeq(s, k + 1, Len(s))


InitNormalize ==
    /\ \/ /\ text \in Texts \cup {NaN}
          /\ variant = text
          /\ pc = "input"
       \/ /\ text = ExampleA
          /\ variant = ExampleB
          /\ pc = "varied"
    /\ out = <<>> /\ again = <<>>
    /\ url = BadUrl /\ labels = <<>>
    /\ df = <<>> /\ urls = <<>> /\ fetched = <<>> /\ all_data = <<>> /\ out_df = <<>>
    /\ final_df = <<>> /\ report = "none"

Respell(v) ==
    /\ pc = "input"
    /\ Str(text)
    /\ variant' = v
    /\ pc' = "varied"
    /\ UNCHANGED <<text, out, again, url, labels, df, urls, fetched, all_data,
                   final_df, report, out_df>>

\* the same text with one letter in the other case
SwapCase ==
    \E k \in 1..Len(text) :
        /\ IsUpper(text[k]) \/ IsLower(text[k])
        /\ Respell([text EXCEPT ![k] = IF IsUpper(@) THEN LowerChar(@) ELSE UpperChar(@)])

\* the same text with one punctuation character less
DropPunctuation ==
    \E k \in 1..Len(text) :
        /\ text[k] \in Punctuation
        /\ Respell(RemoveAt(text, k))

\* the same text with one punctuation character more
AddPunctuation ==
    \E k \in 0..Len(text), c \in Punctuation \cap TextAlphabet :
        Respell(InsertAt(text, k, c))

\* the same text with one run of whitespace longer, or written with another
\* whitespace character, or with whitespace before or after it
ChangeWhitespace ==
    \E c \in Whitespace :
        \/ \E k \in 1..Len(text) :
              /\ IsSpace(text[k])
              /\ \/ Respell(InsertAt(text, k, c))
                 \/ Respell([text EXCEPT ![k] = c])
        \/ Respell(<<c>> \o text)
        \/ Respell(Append(text, c))

\* the same text with one "&" written as the word "and"
AmpersandToAnd ==
    \E k \in 1..Len(text) :
        /\ text[k] = "&"
        /\ Respell(SubSeq(text, 1, k - 1) \o <<"a", "n", "d">> \o SubSeq(text, k + 1, Len(text)))

Normalize ==
    /\ pc \in {"input", "varied"}
    /\ out' = normalize(variant)
    /\ again' = normalize(normalize(variant))
    /\ pc' = "normalized"
    /\ UNCHANGED <<text, variant, url, labels, df, urls, fetched, all_data,
                   final_df, report, out_df>>

NextNormalize ==
    \/ SwapCase
    \/ DropPunctuation
    \/ AddPunctuation
    \/ ChangeWhitespace
    \/ AmpersandToAnd
    \/ Normalize

SpecNormalize == InitNormalize /\ [][NextNormalize]_vars

-----------------------------------------------------------------------------
(* Specification SpecUrl: extract_category_and_metro applied to bounded    *)
(* URLs.                                                                   *)

PathAlphabet == {"p", "-", "/"}

Paths == SeqsUpTo(PathAlphabet, MaxPath)

InitUrl ==
    /\ url \in {Url(p) : p \in Paths} \cup {BadUrl}
    /\ labels = <<>>
    /\ pc = "input"
    /\ text = <<>> /\ variant = <<>> /\ out = <<>> /\ again = <<>>
    /\ df = <<>> /\ urls = <<>> /\ fetched = <<>> /\ all_data = <<>> /\ out_df = <<>>
    /\ final_df = <<>> /\ report = "none"

Extract ==
    /\ pc = "input"
    /\ labels' = extract_category_and_metro(url)
    /\ pc' = "extracted"
    /\ UNCHANGED <<url, text, variant, out, again, df, urls, fetched, all_data,
                   final_df, report, out_df>>

NextUrl == Extract

SpecUrl == InitUrl /\ [][NextUrl]_vars

-----------------------------------------------------------------------------
(* C6: normalize is idempotent, insensitive to letter case, punctuation,   *)
(* amount of whitespace and "&" written as "and" (so that                  *)
(* normalize("A & B, Inc.") = normalize("a and b inc")), and maps a        *)
(* non-string or empty input to the empty string.                          *)
C6_NormalizeIdempotentInsensitive ==
    pc = "normalized" =>
        /\ again = out
        /\ out = normalize(text)
        /\ (text = NaN \/ text = <<>>) => out = <<>>

C6_Witness ==
    /\ pc = "normalized"
    /\ text = ExampleA
    /\ variant = ExampleB
    /\ out = <<"a", " ", "a", "n", "d", " ", "b", " ", "i", "n", "c">>

\* the segments of a path: none for an empty path
C8_Segments(u) ==
    LET stripped == Strip(u.path, {"/"})
    IN  IF stripped = <<>> THEN <<>> ELSE Split(stripped, "/")

(* C8: extract_category_and_metro returns segment 0 and segment 1 of the   *)
(* path with hyphens replaced by spaces, "unknown" for a segment the path  *)
(* does not have (an empty path has none), and (unknown, unknown) for an   *)
(* unparseable URL.                                                        *)
C8_LabelsFromSegments ==
    pc = "extracted" =>
        IF urlparseRaises(url) THEN labels = <<Unknown, Unknown>>
        ELSE LET segs == C8_Segments(url)
             IN  /\ labels[1] = IF Len(segs) > 0
                                THEN ReplaceChar(segs[1], "-", <<" ">>) ELSE Unknown
                 /\ labels[2] = IF Len(segs) > 1
                                THEN ReplaceChar(segs[2], "-", <<" ">>) ELSE Unknown

-----------------------------------------------------------------------------
(* Vocabulary of the claims about the report.                              *)

Rows == 1..Len(final_df)
References == 1..Len(df)
Scraped == 1..Len(all_data)

\* the scraped records whose Match Key is that of reference record j
ScrapedFor(j) == {i \in Scraped : out_df[i].match_key = df[j].match_key}

\* the reference records whose Match Key is that of scraped record i
ReferencesFor(i) == {j \in References : df[j].match_key = out_df[i].match_key}

JoinedRows(i, j) == {k \in Rows : final_df[k].scraped = i /\ final_df[k].ref = j}

SynthesizedRows(j) ==
    {k \in Rows : /\ final_df[k].ref = j
                  /\ final_df[k].scraped = 0
                  /\ final_df[k].comparison_issue = "missing from website"}

DuplicateKeys ==
    \E j1, j2 \in References : j1 # j2 /\ df[j1].match_key = df[j2].match_key

\* the reference side of a row is that of reference record j
ReferenceSideOf(r, j) ==
    /\ r.ProfileUrl = df[j].ProfileUrl
    /\ r.PublishedName = df[j].PublishedName
    /\ r.Category = df[j].Category
    /\ r.Metro = df[j].Metro
    /\ r.FSRPosition = df[j].FSRPosition

\* every reference record is either joined, once per scraped record of its key,
\* or synthesized once, and never both
EveryReferenceReported ==
    \A j \in References :
        /\ \A i \in Scraped :
              Cardinality(JoinedRows(i, j)) = IF i \in ScrapedFor(j) THEN 1 ELSE 0
        /\ Cardinality(SynthesizedRows(j)) = IF ScrapedFor(j) = {} THEN 1 ELSE 0
        /\ \A k \in Rows : final_df[k].ref = j =>
              /\ ReferenceSideOf(final_df[k], j)
              /\ \/ final_df[k].scraped \in ScrapedFor(j)
                 \/ k \in SynthesizedRows(j)

ReferenceSideNull(r) ==
    /\ r.ref = 0
    /\ r.ProfileUrl = UrlNaN
    /\ r.PublishedName = NaN
    /\ r.Category = NaN
    /\ r.Metro = NaN
    /\ r.FSRPosition = NoValue

(* C2: a scraped record whose Match Key is that of no reference record has *)
(* exactly one row, tagged missing_from_input, with the reference side     *)
(* null; and only such records are tagged missing_from_input.              *)
C2_MissingFromInput ==
    pc = "done" =>
        /\ \A i \in Scraped : ReferencesFor(i) = {} =>
              /\ Cardinality({k \in Rows : final_df[k].scraped = i}) = 1
              /\ \A k \in Rows : final_df[k].scraped = i =>
                    /\ final_df[k].comparison_issue = "missing from input"
                    /\ ReferenceSideNull(final_df[k])
        /\ \A k \in Rows : final_df[k].comparison_issue = "missing from input" =>
              /\ final_df[k].scraped # 0
              /\ ReferencesFor(final_df[k].scraped) = {}

\* the expected position a reference record carries: the number its
\* FSR Position cell spells, 0 when the cell is empty or spells none
ExpectedPosition(v) ==
    IF v.t = "num" THEN v.n
    ELSE IF v.t = "str" /\ IsNumeral(v.s) THEN NumeralValue(v.s)
    ELSE 0

Malformed(v) == v.t = "str" /\ ~IsNumeral(v.s)

(* C3: the row of a reference record and a scraped record of one Match Key *)
(* has issue none when the expected position is the observed one,          *)
(* position_mismatch when both are known and differ, and no other issue.   *)
C3_JoinedPairIssue ==
    pc = "done" =>
        \A k \in Rows :
            (final_df[k].ref # 0 /\ final_df[k].scraped # 0) =>
                LET expected == ExpectedPosition(df[final_df[k].ref].FSRPosition)
                    observed == all_data[final_df[k].scraped].position
                    issue == final_df[k].comparison_issue
                IN  /\ expected = observed => issue = ""
                    /\ (expected # 0 /\ expected # observed) => issue = "position mismatch"
                    /\ issue \in {"", "position mismatch"}

NonSynthesized == {k \in Rows : final_df[k].comparison_issue # "missing from website"}

(* C5: the rows other than missing_from_website rows are as many as the    *)
(* scraped records when no two reference records share a Match Key, never  *)
(* fewer, and more only by one row per further reference record of a       *)
(* scraped record's key.                                                   *)
C5_JoinRowCount ==
    pc = "done" =>
        /\ Cardinality(NonSynthesized) >= Len(all_data)
        /\ (report = "shown" /\ ~DuplicateKeys) => Cardinality(NonSynthesized) = Len(all_data)
        /\ \A i \in Scraped :
              Cardinality({k \in NonSynthesized : final_df[k].scraped = i})
                  = IF ReferencesFor(i) = {} THEN 1 ELSE Cardinality(ReferencesFor(i))
        /\ \A k \in NonSynthesized : final_df[k].scraped \in Scraped

C5_Witness ==
    /\ pc = "done"
    /\ report = "shown"
    /\ DuplicateKeys
    /\ Cardinality(NonSynthesized) > Len(all_data)
    /\ \E i \in Scraped : Cardinality(ReferencesFor(i)) = 2

(* C7: a row joined to a reference record whose expected position is       *)
(* malformed has issue none, never position_mismatch.                      *)
C7_MalformedPositionIgnored ==
    pc = "done" =>
        \A k \in Rows :
            (/\ final_df[k].ref # 0
             /\ final_df[k].scraped # 0
             /\ Malformed(df[final_df[k].ref].FSRPosition)) =>
                final_df[k].comparison_issue = ""

(* C9, as stated: a missing_from_website row has every scraped-side field  *)
(* null (name, url, category, metro, position) and the reference side of   *)
(* its reference record.                                                   *)
C9_AsStated ==
    pc = "done" =>
        \A j \in References : \A k \in SynthesizedRows(j) :
            /\ final_df[k].name = NaN
            /\ final_df[k].url = UrlNaN
            /\ final_df[k].category = NaN
            /\ final_df[k].metro = NaN
            /\ final_df[k].position = NoValue
            /\ ReferenceSideOf(final_df[k], j)

(* C9, amended: a missing_from_website row has name, url and position      *)
(* null, the reference side of its reference record, and as category and   *)
(* metro that record's Category and Metro (an empty Metro as the empty     *)
(* string).                                                                *)
C9_SynthesizedRowFields ==
    pc = "done" =>
        \A k \in Rows : final_df[k].comparison_issue = "missing from website" =>
            /\ final_df[k].ref \in References
            /\ final_df[k].name = NaN
            /\ final_df[k].url = UrlNaN
            /\ final_df[k].position = NoValue
            /\ final_df[k].category = df[final_df[k].ref].Category
            /\ final_df[k].metro = df[final_df[k].ref].Metro
            /\ ReferenceSideOf(final_df[k], final_df[k].ref)

C9_Witness ==
    /\ pc = "done"
    /\ \E j \in References : \E k \in SynthesizedRows(j) :
          /\ final_df[k].category = <<"P">>
          /\ final_df[k].metro = <<>>

IsPrefix(a, b) == Len(a) <= Len(b) /\ SubSeq(b, 1, Len(a)) = a

C10_State ==
    /\ Len(fetched) <= Len(urls)
    /\ \A k \in 1..Len(fetched) : fetched[k].url = urls[k]
    /\ \A k1, k2 \in 1..Len(urls) : urls[k1] = urls[k2] => k1 = k2
    /\ (pc = "done" \/ report # "none" \/ final_df # <<>>) => Len(fetched) = Len(urls)

C10_Step ==
    /\ IsPrefix(fetched, fetched') /\ Len(fetched') <= Len(fetched) + 1
    /\ IsPrefix(all_data, all_data')
    /\ all_data' # all_data => Len(fetched') = Len(fetched) + 1
    /\ (/\ Len(fetched') = Len(fetched) + 1
        /\ fetched'[Len(fetched')].outcome # "ok") => all_data' = all_data
    /\ pc = "done" => UNCHANGED vars
    /\ (report' # report \/ final_df' # final_df) =>
          /\ pc # "done" /\ pc' = "done"
          /\ all_data' = all_data
          /\ report' = "shown" => final_df' = concat(keyed_df(df), keyed_out_df(all_data))

(* C10: every derived URL is fetched exactly once, in the order of the     *)
(* list; a failing fetch adds nothing to the accumulator and leaves what   *)
(* it holds; the run ends, and the comparison reads the accumulator, only  *)
(* after the last fetch, and once.                                         *)
C10_TwoPhasePipeline == [](C10_State) /\ [][C10_Step]_vars

C10_Witness ==
    /\ pc = "done"
    /\ report = "shown"
    /\ Len(fetched) = 2
    /\ fetched[1].outcome = "exception"
    /\ fetched[2].outcome = "ok"
    /\ all_data # <<>>

====
